---- MODULE Spec2Model ----
(***************************************************************************)
(* Model of the power monitor bot (src/app.py): the probe's fallback       *)
(* chain, the monitor loop that turns samples into transition             *)
(* notifications, and the registry of subscribers with its persistence.   *)
(*                                                                         *)
(* Python values are encoded as strings where a field is tri-state:       *)
(* "True", "False" and "None" stand for True, False and None.             *)
(***************************************************************************)
EXTENDS Integers, Sequences, FiniteSets, TLC

\* ---------------------------------------------------------------- bounds
\* Samples fed to one activation of the monitor loop.
MaxSamples == 6
\* Chat ids are 0..MaxId.
MaxId == 1
\* Writes of safe_write_json that fail with an I/O error.
MaxFailures == 1

\* ------------------------------------------------------------- constants
DEFAULT_POLL_INTERVAL == 5
\* A second poll interval an operator can type at the console.
OtherPollInterval == 10

Ids == 0..MaxId
Modes == {"admin", "multi"}
PollIntervals == {DEFAULT_POLL_INTERVAL, OtherPollInterval}
Platforms == {"linux", "android", "windows", "mac"}

\* What the environment holds at one probe read.
\*   psutil: "absent" (module missing, no battery, or an exception), else the
\*           value of sensors_battery().power_plugged (None: undetermined)
\*   sysfs : "absent" (no usable /sys/class/power_supply entry), "raises"
\*           (the directory is there and os.listdir of it raises), else
\*           the lower-cased content of the status file
\*   termux: "absent" (command missing, failed, or bad JSON), else the value
\*           of data.get("plugged") (None: key missing)
PsutilReadings == {"absent", "None", "True", "False"}
SysfsReadings ==
    {"absent", "raises", "charging", "discharging", "full", "not charging", "unknown"}
TermuxReadings == {"absent", "None", "True", "False"}
RawEnvs == [psutil : PsutilReadings, sysfs : SysfsReadings, termux : TermuxReadings]

VARIABLES
    platform,        \* self.platform
    mpc,             \* position of the monitor thread
    stop_event,      \* self._stop_event
    prev_plugged,    \* self.prev_plugged
    probe,           \* the adapter that answered the monitor's last read
    fed,             \* samples this activation of the monitor loop has read
    notes,           \* _notify_all calls of this activation
    fanout,          \* send_message calls of the last _notify_all
    unreachable,     \* chats to which send_message raises at present
    last_read,       \* the probe read of the last status command
    tick,            \* locals of the monitor loop's iteration under way
    registered_ids,  \* self.registered_ids
    admin_ids,       \* self.admin_ids
    mode,            \* self.mode
    poll_interval,   \* self.poll_interval
    data_file,       \* content of data.json
    tmp_file,        \* content of data.json.tmp
    pc,              \* position of each handler / reconfigure thread
    loc,             \* locals of each thread
    out,             \* the last reply sent to a chat
    last_write_ok,   \* result of the last finished safe_write_json
    reg0,            \* the subscriber set before the operations under way
    failures,        \* writes that have failed so far
    crashed          \* the process was killed

samplerVars ==
    <<platform, mpc, stop_event, prev_plugged, probe, fed, notes,
      fanout, unreachable, last_read, tick>>
memVars == <<registered_ids, admin_ids, mode, poll_interval>>
fileVars == <<data_file, tmp_file>>
threadVars == <<pc, loc, out, last_write_ok>>
vars == <<samplerVars, memVars, fileVars, threadVars, reg0, failures, crashed>>

\* ----------------------------------------------------------- python values
\* list(s) of a set of ints: its elements, each once.
RECURSIVE ListOf(_)
ListOf(S) ==
    IF S = {} THEN <<>>
    ELSE LET x == CHOOSE y \in S : \A z \in S : y <= z
         IN <<x>> \o ListOf(S \ {x})

SetOfList(l) == {l[i] : i \in DOMAIN l}

NoDup(l) == \A i, j \in DOMAIN l : l[i] = l[j] => i = j

\* ------------------------------------------------------------------ probe
\* bool(x) of Python for x in {None, True, False}.
PyBool(x) == IF x = "True" THEN "True" ELSE "False"

\* get_battery_snapshot returning None.
NoSnap == [power_plugged |-> "None", source |-> "unavailable"]

\* get_battery_snapshot left by an exception.
Raised == [power_plugged |-> "None", source |-> "raised"]

read_battery_psutil(raw) ==
    IF raw.psutil = "absent" THEN NoSnap
    ELSE [power_plugged |-> PyBool(raw.psutil), source |-> "psutil"]

ChargingTokens == {"charging", "full", "pending_charge"}

read_battery_linux_sysfs(raw) ==
    IF raw.sysfs = "absent" THEN NoSnap
    ELSE IF raw.sysfs = "raises" THEN Raised
    ELSE [power_plugged |-> IF raw.sysfs \in ChargingTokens THEN "True" ELSE "False",
          source |-> "sysfs"]

read_battery_termux(raw) ==
    IF raw.termux = "absent" THEN NoSnap
    ELSE [power_plugged |-> PyBool(raw.termux), source |-> "termux"]

\* A chain that tries the filesystem reader before the external command.
get_battery_snapshot_SysfsFirst(detected_platform, raw) ==
    IF read_battery_psutil(raw) # NoSnap THEN read_battery_psutil(raw)
    ELSE IF detected_platform \in {"linux", "android"} /\ read_battery_linux_sysfs(raw) # NoSnap
         THEN read_battery_linux_sysfs(raw)
    ELSE IF detected_platform = "android" /\ read_battery_termux(raw) # NoSnap
         THEN read_battery_termux(raw)
    ELSE NoSnap

get_battery_snapshot(detected_platform, raw) ==
    IF read_battery_psutil(raw) # NoSnap THEN read_battery_psutil(raw)
    ELSE IF detected_platform = "linux" /\ read_battery_linux_sysfs(raw) # NoSnap
         THEN read_battery_linux_sysfs(raw)
    ELSE IF detected_platform = "android" /\ read_battery_termux(raw) # NoSnap
         THEN read_battery_termux(raw)
    ELSE IF detected_platform = "android" /\ read_battery_linux_sysfs(raw) # NoSnap
         THEN read_battery_linux_sysfs(raw)
    ELSE NoSnap

\* The adapters one call of get_battery_snapshot invokes, in order.
Invoked(detected_platform, raw) ==
    <<"psutil">> \o
    (IF read_battery_psutil(raw) # NoSnap THEN <<>>
     ELSE IF detected_platform = "linux" THEN <<"sysfs">>
     ELSE IF detected_platform = "android"
          THEN IF read_battery_termux(raw) # NoSnap THEN <<"termux">>
               ELSE <<"termux", "sysfs">>
     ELSE <<>>)

\* Whether the adapter that produced snap could not determine the plugged
\* state from what it read.
Undetermined(raw, snap) ==
    \/ snap.source = "psutil" /\ raw.psutil = "None"
    \/ snap.source = "sysfs" /\ raw.sysfs = "unknown"
    \/ snap.source = "termux" /\ raw.termux = "None"

ProbeInfo(raw, snap) == [source |-> snap.source, undetermined |-> Undetermined(raw, snap)]

\* The sample a snapshot is to the monitor loop: "U" for no snapshot, "E"
\* for a read that raised, else its power_plugged.
SampleOf(snap) ==
    IF snap = NoSnap THEN "U" ELSE IF snap = Raised THEN "E" ELSE snap.power_plugged

\* What one call of get_battery_snapshot can give the monitor loop on a
\* platform: the snapshot, and the adapter that answered.
Reads(detected_platform) ==
    {[snap |-> get_battery_snapshot(detected_platform, raw),
      probe |-> ProbeInfo(raw, get_battery_snapshot(detected_platform, raw))] :
        raw \in RawEnvs}

\* What a status command records of its read.
NoRead == [platform |-> "none", raw |-> [psutil |-> "absent", sysfs |-> "absent", termux |-> "absent"],
           snap |-> NoSnap, invoked |-> <<>>]
ReadInfo(detected_platform, raw) ==
    [platform |-> detected_platform, raw |-> raw,
     snap |-> get_battery_snapshot(detected_platform, raw),
     invoked |-> Invoked(detected_platform, raw)]

\* --------------------------------------------------------------- notifier
PowerOn == "Power is ON now"
PowerOff == "Power is OFF now"

\* A recipient list that is the subscriber set in every mode.
Recipients_Subscribers == registered_ids

\* _notify_all: the recipient list for the mode in force.
Recipients == IF mode = "multi" THEN registered_ids ELSE admin_ids

\* One call of _notify_all: the message and the recipient list it read.
NotifyCall(text) == [msg |-> text, to |-> Recipients]

\* A fanout that gives up at the first send_message that raises.
RECURSIVE Fanout_AbortOnFailure(_, _)
Fanout_AbortOnFailure(recipients, bad) ==
    IF recipients = <<>> THEN <<>>
    ELSE IF Head(recipients) \in bad THEN <<[cid |-> Head(recipients), ok |-> FALSE]>>
    ELSE <<[cid |-> Head(recipients), ok |-> TRUE]>>
           \o Fanout_AbortOnFailure(Tail(recipients), bad)

\* _notify_all's loop: one send_message per element of the list, the
\* exception of a failing one caught.
RECURSIVE Fanout(_, _)
Fanout(recipients, bad) ==
    IF recipients = <<>> THEN <<>>
    ELSE <<[cid |-> Head(recipients), ok |-> Head(recipients) \notin bad]>>
           \o Fanout(Tail(recipients), bad)

\* The send_message calls of one _notify_all.
Deliveries == Fanout(ListOf(Recipients), unreachable)

\* ---------------------------------------------------------------- sampler
\* start_monitoring(): a no-op while the monitor thread is alive.
StartMonitoring ==
    /\ ~crashed
    /\ mpc \in {"unstarted", "dead"}
    /\ stop_event' = FALSE
    /\ mpc' = "entry"
    /\ fed' = <<>>
    /\ notes' = <<>>
    /\ fanout' = <<>>
    /\ UNCHANGED <<platform, prev_plugged, probe, unreachable, last_read, tick>>
    /\ UNCHANGED <<memVars, fileVars, threadVars, reg0, failures, crashed>>

\* stop()
Stop ==
    /\ ~crashed
    /\ mpc # "unstarted"
    /\ ~stop_event
    /\ stop_event' = TRUE
    /\ UNCHANGED <<platform, mpc, prev_plugged, probe, fed, notes>>
    /\ UNCHANGED <<fanout, unreachable, last_read, tick>>
    /\ UNCHANGED <<memVars, fileVars, threadVars, reg0, failures, crashed>>

\* What the read on entering _monitor_loop leaves in self.prev_plugged.
EntryPrev(snap) == IF snap # NoSnap THEN snap.power_plugged ELSE "None"

\* _monitor_loop, the read before the while loop.  It is outside the try:
\* an exception of get_battery_snapshot ends the thread.
MonitorEntry ==
    /\ ~crashed
    /\ mpc = "entry"
    /\ \E read \in Reads(platform) :
         LET snap == read.snap IN
           /\ prev_plugged' = IF snap = Raised THEN prev_plugged ELSE EntryPrev(snap)
           /\ mpc' = IF snap = Raised THEN "dead" ELSE "loop"
           /\ probe' = read.probe
           /\ fed' = Append(fed, SampleOf(snap))
    /\ fanout' = <<>>
    /\ UNCHANGED <<platform, stop_event, notes, unreachable, last_read, tick>>
    /\ UNCHANGED <<memVars, fileVars, threadVars, reg0, failures, crashed>>

\* A loop that takes the first known reading for a transition.
TickBranch_NoBaseline(prev, snap) ==
    IF snap = Raised THEN "error"
    ELSE IF snap = NoSnap THEN "skip"
    ELSE IF snap.power_plugged # "None" /\ snap.power_plugged # prev THEN "transition"
    ELSE "skip"

\* The branch of one iteration: "error" (the read raised, the except clause
\* runs), "skip", "baseline" or "transition".
TickBranch(prev, snap) ==
    IF snap = Raised THEN "error"
    ELSE IF snap = NoSnap THEN "skip"
    ELSE IF prev = "None" THEN "baseline"
    ELSE IF snap.power_plugged # "None" /\ snap.power_plugged # prev THEN "transition"
    ELSE "skip"

\* The two messages swapped.
TransitionMessage_Swapped(plugged) == IF plugged = "True" THEN PowerOff ELSE PowerOn

TransitionMessage(plugged) == IF plugged = "True" THEN PowerOn ELSE PowerOff

\* A loop that forgets the previous state when a read fails.
TickPrev_ResetOnMiss(prev, snap) ==
    IF snap = NoSnap THEN "None"
    ELSE IF TickBranch(prev, snap) \in {"skip", "error"} THEN prev ELSE snap.power_plugged

\* What one iteration leaves in self.prev_plugged.
TickPrev(prev, snap) ==
    IF TickBranch(prev, snap) \in {"skip", "error"} THEN prev ELSE snap.power_plugged

\* The _notify_all calls after one iteration.
TickNotes(prev, snap) ==
    IF TickBranch(prev, snap) = "transition"
    THEN Append(notes, NotifyCall(TransitionMessage(snap.power_plugged)))
    ELSE notes

\* An iteration that sends the notification of a transition again while
\* the last fanout had a failed delivery.
TickFanout_Retry(prev, snap) ==
    IF TickBranch(prev, snap) = "transition"
         \/ (snap # Raised /\ \E i \in DOMAIN fanout : ~fanout[i].ok)
    THEN Deliveries ELSE <<>>

\* The send_message calls of one iteration.
TickFanout(prev, snap) ==
    IF TickBranch(prev, snap) = "transition" THEN Deliveries ELSE <<>>

\* _monitor_loop, one iteration of the while loop (read, compare, notify, sleep).
MonitorTick ==
    /\ ~crashed
    /\ mpc = "loop"
    /\ ~stop_event
    /\ Len(fed) < MaxSamples
    /\ \E read \in Reads(platform) :
         LET snap == read.snap IN
           /\ prev_plugged' = TickPrev(prev_plugged, snap)
           /\ notes' = TickNotes(prev_plugged, snap)
           /\ fanout' = TickFanout(prev_plugged, snap)
           /\ probe' = read.probe
           /\ fed' = Append(fed, SampleOf(snap))
    /\ UNCHANGED <<platform, mpc, stop_event, unreachable, last_read, tick>>
    /\ UNCHANGED <<memVars, fileVars, threadVars, reg0, failures, crashed>>

\* _monitor_loop, the while test finding the stop event set: the thread ends.
MonitorExit ==
    /\ ~crashed
    /\ mpc = "loop"
    /\ stop_event
    /\ mpc' = "dead"
    /\ UNCHANGED <<platform, stop_event, prev_plugged, probe, fed, notes>>
    /\ UNCHANGED <<fanout, unreachable, last_read, tick>>
    /\ UNCHANGED <<memVars, fileVars, threadVars, reg0, failures, crashed>>

\* _notify_all(text) as a call of its own, for the mode and the sets in force.
NotifyAll(text) ==
    /\ ~crashed
    /\ Len(notes) < MaxSamples
    /\ notes' = Append(notes, NotifyCall(text))
    /\ fanout' = Deliveries
    /\ UNCHANGED <<platform, mpc, stop_event, prev_plugged, probe, fed>>
    /\ UNCHANGED <<unreachable, last_read, tick>>
    /\ UNCHANGED <<memVars, fileVars, threadVars, reg0, failures, crashed>>

\* The transport starts or stops failing for some chats (a chat blocks the
\* bot, the network goes away or comes back).
NetworkChange ==
    /\ ~crashed
    /\ \E S \in SUBSET Ids : S # unreachable /\ unreachable' = S
    /\ UNCHANGED <<platform, mpc, stop_event, prev_plugged, probe, fed, notes>>
    /\ UNCHANGED <<fanout, last_read, tick>>
    /\ UNCHANGED <<memVars, fileVars, threadVars, reg0, failures, crashed>>

\* The monitor loop between two iterations: no fanout under way.
NoTick == [pending |-> <<>>, plugged |-> "None", mode |-> "none"]

\* _monitor_loop, one iteration up to its call of _notify_all: the read,
\* the comparison and, for a transition, the recipient list of line 603.
TickBegin ==
    /\ ~crashed
    /\ mpc = "loop"
    /\ ~stop_event
    /\ Len(fed) < MaxSamples
    /\ \E read \in Reads(platform) :
         LET snap == read.snap IN
           /\ probe' = read.probe
           /\ fed' = Append(fed, SampleOf(snap))
           /\ notes' = TickNotes(prev_plugged, snap)
           /\ IF TickBranch(prev_plugged, snap) = "transition"
              THEN /\ tick' = [pending |-> ListOf(Recipients), plugged |-> snap.power_plugged,
                             mode |-> mode]
                   /\ mpc' = "fanout"
                   /\ UNCHANGED prev_plugged
              ELSE /\ prev_plugged' = TickPrev(prev_plugged, snap)
                   /\ mpc' = "sleep"
                   /\ UNCHANGED tick
    /\ fanout' = <<>>
    /\ UNCHANGED <<platform, stop_event, unreachable, last_read>>
    /\ UNCHANGED <<memVars, fileVars, threadVars, reg0, failures, crashed>>

\* _notify_all, one pass of its for loop: send_message to the next
\* recipient, an exception caught.
FanoutSend ==
    /\ ~crashed
    /\ mpc = "fanout"
    /\ tick.pending # <<>>
    /\ fanout' = fanout \o Fanout(<<Head(tick.pending)>>, unreachable)
    /\ tick' = [tick EXCEPT !.pending = Tail(tick.pending)]
    /\ UNCHANGED <<platform, mpc, stop_event, prev_plugged, probe, fed, notes>>
    /\ UNCHANGED <<unreachable, last_read>>
    /\ UNCHANGED <<memVars, fileVars, threadVars, reg0, failures, crashed>>

\* _monitor_loop: _notify_all has returned, self.prev_plugged = plugged.
TickEnd ==
    /\ ~crashed
    /\ mpc = "fanout"
    /\ tick.pending = <<>>
    /\ prev_plugged' = tick.plugged
    /\ tick' = NoTick
    /\ mpc' = "sleep"
    /\ UNCHANGED <<platform, stop_event, probe, fed, notes>>
    /\ UNCHANGED <<fanout, unreachable, last_read>>
    /\ UNCHANGED <<memVars, fileVars, threadVars, reg0, failures, crashed>>

\* _monitor_loop: time.sleep(self.poll_interval) returns; the while test
\* comes next.
TickSleep ==
    /\ ~crashed
    /\ mpc = "sleep"
    /\ mpc' = "loop"
    /\ UNCHANGED <<platform, stop_event, prev_plugged, probe, fed, notes>>
    /\ UNCHANGED <<fanout, unreachable, last_read, tick>>
    /\ UNCHANGED <<memVars, fileVars, threadVars, reg0, failures, crashed>>

\* _notify_all called for a transition to `plugged`, up to the first half
\* of line 603: self.mode is read and tested.
NotifyReadMode(plugged) ==
    /\ ~crashed
    /\ tick = NoTick
    /\ tick' = [NoTick EXCEPT !.plugged = plugged, !.mode = mode]
    /\ UNCHANGED <<platform, mpc, stop_event, prev_plugged, probe, fed, notes>>
    /\ UNCHANGED <<fanout, unreachable, last_read>>
    /\ UNCHANGED <<memVars, fileVars, threadVars, reg0, failures, crashed>>

\* The set that line 603 copies for the mode it has read.
RecipientsFor(m) == IF m = "multi" THEN registered_ids ELSE admin_ids

\* _notify_all, the second half of line 603 and the loop: the set chosen
\* by the mode read before is copied, and the messages are sent.
NotifyReadSet ==
    /\ ~crashed
    /\ tick.mode \in Modes
    /\ Len(notes) < MaxSamples
    /\ notes' = Append(notes, [msg |-> TransitionMessage(tick.plugged),
                               to |-> RecipientsFor(tick.mode)])
    /\ fanout' = Fanout(ListOf(RecipientsFor(tick.mode)), unreachable)
    /\ tick' = NoTick
    /\ UNCHANGED <<platform, mpc, stop_event, prev_plugged, probe, fed>>
    /\ UNCHANGED <<unreachable, last_read>>
    /\ UNCHANGED <<memVars, fileVars, threadVars, reg0, failures, crashed>>

\* run() returns once its finally clause has called stop(), and main()
\* with it: the interpreter exits.  The monitor thread is a daemon thread
\* and nothing joins it, so it ends wherever it is.
ProcessExit ==
    /\ ~crashed
    /\ stop_event
    /\ crashed' = TRUE
    /\ UNCHANGED <<samplerVars, memVars, fileVars, threadVars, reg0, failures>>

\* ------------------------------------------------------------ persistence
Threads == {"h1", "h2", "rc"}
\* The transport's worker threads, which run the command handlers.
Handlers == {"h1", "h2"}

\* A dict with no usable content (safe_read_json returning None).
NoCfg == [mode |-> "", admin_ids |-> <<>>, registered_ids |-> <<>>, poll_interval |-> 0]

\* File contents: no file, a file opened for writing and still empty, a
\* file holding part of a JSON text, a file holding a whole JSON text.
FileAbsent == [state |-> "absent", cfg |-> NoCfg]
FileEmpty == [state |-> "empty", cfg |-> NoCfg]
FilePartial == [state |-> "partial", cfg |-> NoCfg]

\* json.dump(data, f) run to its end and closed.
json_dump(cfg) == [state |-> "complete", cfg |-> cfg]

safe_read_json(file) == IF file.state = "complete" THEN file.cfg ELSE NoCfg

\* default_state(platform_name), and what the setup fills in.
SetupCfg(m, admins, poll) ==
    [mode |-> m,
     admin_ids |-> IF m = "admin" THEN ListOf(admins) ELSE <<>>,
     registered_ids |-> <<>>,
     poll_interval |-> poll]

\* A persist that keeps the subscriber list data.json already holds.
PersistCfg_Stale ==
    [mode |-> mode,
     admin_ids |-> ListOf(admin_ids),
     registered_ids |-> safe_read_json(data_file).registered_ids,
     poll_interval |-> poll_interval]

\* The dict _persist_registered writes.
PersistCfg ==
    [mode |-> mode,
     admin_ids |-> ListOf(admin_ids),
     registered_ids |-> ListOf(registered_ids),
     poll_interval |-> poll_interval]

\* PowerMonitorBot.__init__: set([int(x) for x in config.get(key, []) if x])
CtorIds(l) == {l[i] : i \in {j \in DOMAIN l : l[j] # 0}}

\* A start that leaves the sets as the constructor built them.
MainPrepopulate_Skipped(S, l) == S

\* main(): pm.registered_ids.add(int(r)) for every r of the config list.
MainPrepopulate(S, l) == S \cup SetOfList(l)

\* The registry a start of the process builds from a config dict.
Load(cfg) ==
    [registered_ids |-> MainPrepopulate(CtorIds(cfg.registered_ids), cfg.registered_ids),
     admin_ids |-> MainPrepopulate(CtorIds(cfg.admin_ids), cfg.admin_ids),
     mode |-> cfg.mode,
     poll_interval |-> cfg.poll_interval]

\* The registry in memory.
Memory ==
    [registered_ids |-> registered_ids,
     admin_ids |-> admin_ids,
     mode |-> mode,
     poll_interval |-> poll_interval]

\* The locals of a thread: the command it handles and the chat it came from,
\* the dict to write, the content of data.json when the write began, where
\* the open temp file is now ("none": not open; "tmp": at the temp path;
\* "data": renamed to data.json by another thread; "orphan": replaced
\* since), and where the thread continues after safe_write_json.
LocIdle ==
    [cmd |-> "none", cid |-> 0, cfg |-> NoCfg, old |-> FileAbsent,
     fd |-> "none", then |-> "idle"]
NoReply == [cid |-> 0, text |-> "none"]

\* ------------------------------------------------------------------- init
\* The state after main() has read data.json and built the bot.  The file
\* is one a setup or an earlier run of the program wrote: in multi-user
\* mode the setup leaves admin_ids empty.
Init ==
    /\ platform \in Platforms
    /\ mpc = "unstarted"
    /\ stop_event = FALSE
    /\ prev_plugged = "None"
    /\ probe = [source |-> "unavailable", undetermined |-> FALSE]
    /\ fed = <<>>
    /\ notes = <<>>
    /\ fanout = <<>>
    /\ unreachable \in SUBSET Ids
    /\ last_read = NoRead
    /\ tick = NoTick
    /\ \E m \in Modes, a \in SUBSET Ids, r \in SUBSET Ids :
         LET cfg == [mode |-> m,
                     admin_ids |-> IF m = "admin" THEN ListOf(a) ELSE <<>>,
                     registered_ids |-> ListOf(r),
                     poll_interval |-> DEFAULT_POLL_INTERVAL]
         IN /\ data_file = json_dump(cfg)
            /\ registered_ids = Load(cfg).registered_ids
            /\ admin_ids = Load(cfg).admin_ids
            /\ mode = Load(cfg).mode
            /\ poll_interval = Load(cfg).poll_interval
    /\ tmp_file = FileAbsent
    /\ pc = [t \in Threads |-> "idle"]
    /\ loc = [t \in Threads |-> LocIdle]
    /\ out = NoReply
    /\ last_write_ok = TRUE
    /\ reg0 = registered_ids
    /\ failures = 0
    /\ crashed = FALSE

\* --------------------------------------------------------------- handlers
\* No other thread is inside an operation.
Serial(t) == \A u \in Threads \ {t} : pc[u] = "idle"

\* An access check that lets every chat in.
is_allowed_of_Open(self_mode, self_admin_ids, chat_id) == TRUE

\* _is_allowed(chat_id) for given values of self.mode and self.admin_ids
is_allowed_of(self_mode, self_admin_ids, chat_id) ==
    IF self_mode = "multi" THEN TRUE ELSE chat_id \in self_admin_ids

\* _is_allowed(chat_id)
is_allowed(chat_id) == is_allowed_of(mode, admin_ids, chat_id)

Reply(cid, text) == [cid |-> cid, text |-> text]

\* snapshot_text(snap), the status part of it.
snapshot_text(snap) ==
    IF snap = NoSnap THEN "not_available"
    ELSE IF snap.power_plugged = "True" THEN "power_on"
    ELSE IF snap.power_plugged = "False" THEN "power_off"
    ELSE "unknown"

\* handle_status, and handle_callback_query with data == "status": an
\* exception of get_battery_snapshot leaves the handler without a reply.
HandleStatus(t, cid) ==
    /\ ~crashed
    /\ pc[t] = "idle"
    /\ IF ~is_allowed(cid)
       THEN /\ out' = Reply(cid, "not_allowed")
            /\ UNCHANGED last_read
       ELSE \E raw \in RawEnvs :
              LET snap == get_battery_snapshot(platform, raw) IN
                /\ last_read' = ReadInfo(platform, raw)
                /\ out' = Reply(cid, IF snap = Raised THEN "error" ELSE snapshot_text(snap))
    /\ UNCHANGED <<platform, mpc, stop_event, prev_plugged, probe, fed, notes>>
    /\ UNCHANGED <<fanout, unreachable, tick>>
    /\ UNCHANGED <<pc, loc, last_write_ok>>
    /\ UNCHANGED <<memVars, fileVars, reg0, failures, crashed>>

\* A thread going on to _persist_registered, to continue at `then` after it.
ToPersist(t, cmd, cid, then) ==
    /\ pc' = [pc EXCEPT ![t] = "build"]
    /\ loc' = [loc EXCEPT ![t] = [LocIdle EXCEPT !.cmd = cmd, !.cid = cid, !.then = then]]

\* A remove that leaves the set empty.
SetRemove_Clear(S, x) == {}

\* set.add(x) and set.remove(x) on self.registered_ids: each is one call
\* into the interpreter's set type and runs with the interpreter lock held,
\* as does list(set), so another thread sees the set before or after it.
SetAdd(S, x) == S \cup {x}
SetRemove(S, x) == S \ {x}

\* A register branch without the admin-mode test.
RegisterBranch_Ungated(cid) == IF cid \notin registered_ids THEN "add" ELSE "already"

\* The register branch up to its call of _persist_registered: "denied",
\* "add" or "already".
RegisterBranch(cid) ==
    IF mode = "admin" /\ cid \notin admin_ids THEN "denied"
    ELSE IF cid \notin registered_ids THEN "add"
    ELSE "already"

\* handle_callback_query, data == "register"
HandleRegister(t, cid) ==
    /\ ~crashed
    /\ pc[t] = "idle"
    /\ IF RegisterBranch(cid) = "add"
       THEN /\ registered_ids' = SetAdd(registered_ids, cid)
            /\ ToPersist(t, "register", cid, "reply")
            /\ UNCHANGED out
       ELSE /\ out' = Reply(cid, RegisterBranch(cid))
            /\ UNCHANGED <<registered_ids, pc, loc>>
    /\ reg0' = IF Serial(t) THEN registered_ids ELSE reg0
    /\ UNCHANGED <<admin_ids, mode, poll_interval, last_write_ok>>
    /\ UNCHANGED <<samplerVars, fileVars, failures, crashed>>

\* An unregister that removes without testing membership.
UnregisterBranch_NoCheck(cid) == "remove"

\* The unregister handlers up to their call of _persist_registered:
\* "remove" or "not_registered".
UnregisterBranch(cid) ==
    IF cid \in registered_ids THEN "remove" ELSE "not_registered"

\* handle_unregister, and handle_callback_query with data == "unregister"
HandleUnregister(t, cid) ==
    /\ ~crashed
    /\ pc[t] = "idle"
    /\ IF UnregisterBranch(cid) = "remove"
       THEN IF cid \in registered_ids
            THEN /\ registered_ids' = SetRemove(registered_ids, cid)
                 /\ ToPersist(t, "unregister", cid, "reply")
                 /\ UNCHANGED out
            ELSE \* set.remove of an absent element raises KeyError
                 /\ out' = Reply(cid, "error")
                 /\ UNCHANGED <<registered_ids, pc, loc>>
       ELSE /\ out' = Reply(cid, UnregisterBranch(cid))
            /\ UNCHANGED <<registered_ids, pc, loc>>
    /\ reg0' = IF Serial(t) THEN registered_ids ELSE reg0
    /\ UNCHANGED <<admin_ids, mode, poll_interval, last_write_ok>>
    /\ UNCHANGED <<samplerVars, fileVars, failures, crashed>>

\* _persist_registered up to its call of safe_write_json: the dict to write
\* is built from the registry in memory.
PersistBuild(t) ==
    /\ ~crashed
    /\ pc[t] = "build"
    /\ pc' = [pc EXCEPT ![t] = "open"]
    /\ loc' = [loc EXCEPT ![t].cfg = PersistCfg, ![t].old = data_file]
    /\ UNCHANGED <<out, last_write_ok>>
    /\ UNCHANGED <<samplerVars, memVars, fileVars, reg0, failures, crashed>>

\* safe_write_json ending with an exception: it returns False, and its
\* caller goes on.
WriteFailed(t) ==
    /\ pc' = [pc EXCEPT ![t] = loc[t].then]
    /\ last_write_ok' = FALSE

\* An I/O error (disk full, permission denied) strikes the step when fail
\* is TRUE; the model lets MaxFailures of them happen.
IOError(fail) ==
    /\ fail => failures < MaxFailures
    /\ failures' = IF fail THEN failures + 1 ELSE failures

\* The length of the text json.dump(cfg, f, indent=2) writes for a list of
\* one-digit ids: "[]", or one line per element between the brackets.
ListLength(l) == IF Len(l) = 0 THEN 2 ELSE 7 * Len(l) + 4

\* The part of the length of a dumped dict that varies with its values.
JsonLength(cfg) ==
    ListLength(cfg.admin_ids) + ListLength(cfg.registered_ids)
        + (IF cfg.poll_interval < 10 THEN 1 ELSE 2)

\* The content of a file after `cfg` has been written at its start: the
\* whole text if the file held nothing longer, else the text followed by
\* the rest of what the file held, which is not a JSON text.
Written(existing, cfg) ==
    IF existing.state \in {"absent", "empty"} THEN json_dump(cfg)
    ELSE IF existing.state = "complete" /\ JsonLength(cfg) >= JsonLength(existing.cfg)
         THEN json_dump(cfg)
    ELSE FilePartial

\* A write to the file the thread holds open changes the file that is at
\* the temp path or, if another thread has renamed it meanwhile, data.json.
WriteOpenFile(t, content) ==
    /\ tmp_file' = IF loc[t].fd = "tmp" THEN content ELSE tmp_file
    /\ data_file' = IF loc[t].fd = "data" THEN content ELSE data_file

\* A write that opens data.json itself instead of the temp file.
SafeWriteOpen_Direct(t, fail) ==
    /\ ~crashed
    /\ IOError(fail)
    /\ pc[t] = "open"
    /\ IF fail
       THEN /\ WriteFailed(t)
            /\ UNCHANGED <<fileVars, loc>>
       ELSE /\ pc' = [pc EXCEPT ![t] = "dump"]
            /\ loc' = [loc EXCEPT ![t].fd = "data"]
            /\ data_file' = FileEmpty
            /\ UNCHANGED <<tmp_file, last_write_ok>>
    /\ UNCHANGED out
    /\ UNCHANGED <<samplerVars, memVars, reg0, crashed>>

\* safe_write_json: open(TEMP_DATA_FILE, "w")
SafeWriteOpen(t, fail) ==
    /\ ~crashed
    /\ IOError(fail)
    /\ pc[t] = "open"
    /\ IF fail
       THEN /\ WriteFailed(t)
            /\ UNCHANGED <<fileVars, loc>>
       ELSE /\ pc' = [pc EXCEPT ![t] = "dump"]
            /\ loc' = [loc EXCEPT ![t].fd = "tmp"]
            /\ tmp_file' = FileEmpty
            /\ UNCHANGED <<data_file, last_write_ok>>
    /\ UNCHANGED out
    /\ UNCHANGED <<samplerVars, memVars, reg0, crashed>>

\* safe_write_json: json.dump into the open file, and its close
SafeWriteDump(t, fail) ==
    /\ ~crashed
    /\ IOError(fail)
    /\ pc[t] = "dump"
    /\ IF fail
       THEN /\ WriteFailed(t)
            /\ WriteOpenFile(t, FilePartial)
       ELSE /\ pc' = [pc EXCEPT ![t] = "replace"]
            /\ WriteOpenFile(t, Written(IF loc[t].fd = "data" THEN data_file ELSE tmp_file,
                                        loc[t].cfg))
            /\ UNCHANGED last_write_ok
    /\ loc' = [loc EXCEPT ![t].fd = "none"]
    /\ UNCHANGED out
    /\ UNCHANGED <<samplerVars, memVars, reg0, crashed>>

\* Where the files other threads hold open are after the temp file has
\* been renamed over data.json.
Renamed(fd) == IF fd = "tmp" THEN "data" ELSE IF fd = "data" THEN "orphan" ELSE fd

\* safe_write_json: os.replace(TEMP_DATA_FILE, path); with no temp file
\* there it raises.
SafeWriteReplace(t, fail) ==
    /\ ~crashed
    /\ IOError(fail)
    /\ pc[t] = "replace"
    /\ pc' = [pc EXCEPT ![t] = loc[t].then]
    /\ IF fail \/ tmp_file.state = "absent"
       THEN /\ last_write_ok' = FALSE
            /\ UNCHANGED <<fileVars, loc>>
       ELSE /\ last_write_ok' = TRUE
            /\ data_file' = tmp_file
            /\ tmp_file' = FileAbsent
            /\ loc' = [u \in Threads |-> [loc[u] EXCEPT !.fd = Renamed(loc[u].fd)]]
    /\ UNCHANGED out
    /\ UNCHANGED <<samplerVars, memVars, reg0, crashed>>

\* The text a handler sends after _persist_registered has returned.
SuccessText(cmd) == IF cmd = "register" THEN "registered" ELSE "unregistered"

\* The handler's reply after _persist_registered has returned.
HandlerReply(t) ==
    /\ ~crashed
    /\ pc[t] = "reply"
    /\ out' = Reply(loc[t].cid, SuccessText(loc[t].cmd))
    /\ pc' = [pc EXCEPT ![t] = "idle"]
    /\ loc' = [loc EXCEPT ![t] = LocIdle]
    /\ UNCHANGED last_write_ok
    /\ UNCHANGED <<samplerVars, memVars, fileVars, reg0, failures, crashed>>

\* ------------------------------------------------------------ reconfigure
\* A reconfigure test that follows the access predicate of the mode.
ReconfigureBranch_ByMode(cid) == IF is_allowed(cid) THEN "start" ELSE "not_admin"

\* The test of the reconfigure handlers: "not_admin" or "start".
ReconfigureBranch(cid) == IF cid \notin admin_ids THEN "not_admin" ELSE "start"

\* handle_reconfigure, and handle_callback_query with data == "reconfigure":
\* an admin's request starts the reconfiguration thread.
HandleReconfigure(t, cid) ==
    /\ ~crashed
    /\ pc[t] = "idle"
    /\ IF ReconfigureBranch(cid) = "not_admin"
       THEN /\ out' = Reply(cid, "not_admin")
            /\ UNCHANGED <<pc, loc>>
       ELSE /\ pc["rc"] = "idle"
            /\ out' = Reply(cid, "reconfiguring")
            /\ pc' = [pc EXCEPT !["rc"] = "setup"]
            /\ loc' = [loc EXCEPT !["rc"] = [LocIdle EXCEPT !.cmd = "reconfigure", !.cid = cid]]
    /\ UNCHANGED last_write_ok
    /\ UNCHANGED <<samplerVars, memVars, fileVars, reg0, failures, crashed>>

\* _reconfigure_console: interactive_setup has collected the new
\* configuration and calls safe_write_json(DATA_FILE, cfg).
ReconfigSetup(m, admins, poll) ==
    /\ ~crashed
    /\ pc["rc"] = "setup"
    /\ pc' = [pc EXCEPT !["rc"] = "open"]
    /\ loc' = [loc EXCEPT !["rc"].cfg = SetupCfg(m, admins, poll),
                          !["rc"].old = data_file,
                          !["rc"].then = "apply_mode"]
    /\ UNCHANGED <<out, last_write_ok>>
    /\ UNCHANGED <<samplerVars, memVars, fileVars, reg0, failures, crashed>>

\* _reconfigure_console: self.mode = new_cfg.get("mode", self.mode)
ReconfigApplyMode ==
    /\ ~crashed
    /\ pc["rc"] = "apply_mode"
    /\ mode' = loc["rc"].cfg.mode
    /\ pc' = [pc EXCEPT !["rc"] = "apply_admins"]
    /\ UNCHANGED <<registered_ids, admin_ids, poll_interval>>
    /\ UNCHANGED <<loc, out, last_write_ok>>
    /\ UNCHANGED <<samplerVars, fileVars, reg0, failures, crashed>>

\* _reconfigure_console: self.admin_ids and self.poll_interval are replaced,
\* then _persist_registered is called.
ReconfigApplyAdmins ==
    /\ ~crashed
    /\ pc["rc"] = "apply_admins"
    /\ admin_ids' = SetOfList(loc["rc"].cfg.admin_ids)
    /\ poll_interval' = loc["rc"].cfg.poll_interval
    /\ pc' = [pc EXCEPT !["rc"] = "build"]
    /\ loc' = [loc EXCEPT !["rc"].then = "rc_done"]
    /\ UNCHANGED <<registered_ids, mode>>
    /\ UNCHANGED <<out, last_write_ok>>
    /\ UNCHANGED <<samplerVars, fileVars, reg0, failures, crashed>>

\* _reconfigure_console: "Reconfiguration complete" is printed; the thread ends.
ReconfigDone ==
    /\ ~crashed
    /\ pc["rc"] = "rc_done"
    /\ pc' = [pc EXCEPT !["rc"] = "idle"]
    /\ loc' = [loc EXCEPT !["rc"] = LocIdle]
    /\ UNCHANGED <<out, last_write_ok>>
    /\ UNCHANGED <<samplerVars, memVars, fileVars, reg0, failures, crashed>>

\* The process is killed: no thread takes another step.
Crash ==
    /\ ~crashed
    /\ crashed' = TRUE
    /\ UNCHANGED <<samplerVars, memVars, fileVars, threadVars, reg0, failures>>

\* --------------------------------------------------------- specifications
AllIdle == \A t \in Threads : pc[t] = "idle"

\* The monitor thread alone.
NextSampler ==
    \/ StartMonitoring
    \/ Stop
    \/ MonitorEntry
    \/ MonitorTick
    \/ MonitorExit

\* The steps of safe_write_json and what follows it in a thread.
PersistSteps(t) ==
    \/ PersistBuild(t)
    \/ \E fail \in BOOLEAN : SafeWriteOpen(t, fail)
    \/ \E fail \in BOOLEAN : SafeWriteDump(t, fail)
    \/ \E fail \in BOOLEAN : SafeWriteReplace(t, fail)

ReconfigSteps ==
    \/ \E m \in Modes, admins \in SUBSET Ids, poll \in PollIntervals :
         ReconfigSetup(m, admins, poll)
    \/ ReconfigApplyMode
    \/ ReconfigApplyAdmins
    \/ ReconfigDone

\* Commands handled one at a time: a handler starts only when no other
\* thread is inside an operation.
NextSerial ==
    \/ \E cid \in Ids : Serial("h1") /\ HandleRegister("h1", cid)
    \/ \E cid \in Ids : Serial("h1") /\ HandleUnregister("h1", cid)
    \/ \E cid \in Ids : Serial("h1") /\ HandleReconfigure("h1", cid)
    \/ \E t \in {"h1", "rc"} : PersistSteps(t)
    \/ HandlerReply("h1")
    \/ ReconfigSteps
    \/ Crash

\* The handler threads and the reconfiguration thread, interleaved.
NextRegistry ==
    \/ \E t \in Handlers, cid \in Ids : HandleRegister(t, cid)
    \/ \E t \in Handlers, cid \in Ids : HandleUnregister(t, cid)
    \/ \E t \in Handlers, cid \in Ids : HandleReconfigure(t, cid)
    \/ \E t \in Threads : PersistSteps(t)
    \/ \E t \in Handlers : HandlerReply(t)
    \/ ReconfigSteps
    \/ Crash

\* A register in one handler thread and an unregister in the other, with
\* no write failing, each followed up to the return of _persist_registered.
NextRace ==
    \/ \E cid \in Ids : HandleRegister("h1", cid)
    \/ \E cid \in Ids : HandleUnregister("h2", cid)
    \/ \E t \in Handlers : PersistBuild(t)
    \/ \E t \in Handlers : SafeWriteOpen(t, FALSE)
    \/ \E t \in Handlers : SafeWriteDump(t, FALSE)
    \/ \E t \in Handlers : SafeWriteReplace(t, FALSE)

\* Commands handled one at a time, with no write failing and no crash.
NextGate ==
    \/ \E cid \in Ids : Serial("h1") /\ HandleRegister("h1", cid)
    \/ \E cid \in Ids : Serial("h1") /\ HandleUnregister("h1", cid)
    \/ \E cid \in Ids : Serial("h1") /\ HandleReconfigure("h1", cid)
    \/ \E t \in {"h1", "rc"} : PersistBuild(t)
    \/ \E t \in {"h1", "rc"} : SafeWriteOpen(t, FALSE)
    \/ \E t \in {"h1", "rc"} : SafeWriteDump(t, FALSE)
    \/ \E t \in {"h1", "rc"} : SafeWriteReplace(t, FALSE)
    \/ HandlerReply("h1")
    \/ ReconfigSteps

\* Status commands.
NextStatus == \E cid \in Ids : HandleStatus("h1", cid)

\* The monitor thread with deliveries to chat 0 that fail at times.
NextNotify ==
    \/ NextSampler
    \/ NetworkChange /\ unreachable' \subseteq {0}

\* Calls of _notify_all with deliveries that fail.
NextFanout ==
    \/ \E text \in {PowerOn, PowerOff} : NotifyAll(text)
    \/ NetworkChange

\* One call of _notify_all from the monitor thread, at any point of the
\* commands the handler threads are running.
NextOverlap ==
    \/ NextGate
    \/ notes = <<>> /\ NotifyReadMode("False")
    \/ NotifyReadSet

\* The monitor thread step by step, and the end of the process after stop().
NextShutdown ==
    \/ StartMonitoring
    \/ Stop
    \/ MonitorEntry
    \/ TickBegin
    \/ FanoutSend
    \/ TickEnd
    \/ TickSleep
    \/ MonitorExit
    \/ ProcessExit

Next == NextSampler \/ NextRegistry \/ NextStatus \/ NetworkChange

\* The sampler's claims do not depend on who the recipients are.
InitSampler == Init /\ mode = "multi" /\ registered_ids = Ids /\ unreachable = {}

\* The registry's claims do not depend on the platform.
InitRegistry == Init /\ platform = "linux" /\ unreachable = {}

\* Status commands read the probe on any platform; nobody is subscribed.
InitStatus == Init /\ registered_ids = {} /\ unreachable = {}

\* The monitor thread on linux in multi-user mode, with nobody or everybody
\* subscribed, and chat 0 reachable or not.
InitNotify ==
    /\ Init
    /\ platform = "linux"
    /\ mode = "multi"
    /\ registered_ids \in {{}, Ids}
    /\ unreachable \subseteq {0}

\* Any mode, admin set and subscriber set, on linux.
InitFanout == Init /\ platform = "linux"

Spec == Init /\ [][Next]_vars
SpecOverlap == InitRegistry /\ [][NextOverlap]_vars
SpecShutdown == InitSampler /\ [][NextShutdown]_vars
SpecGate == InitRegistry /\ [][NextGate]_vars
SpecStatus == InitStatus /\ [][NextStatus]_vars
SpecNotify == InitNotify /\ [][NextNotify]_vars
SpecFanout == InitFanout /\ [][NextFanout]_vars
SpecSampler == InitSampler /\ [][NextSampler]_vars
SpecSerial == InitRegistry /\ [][NextSerial]_vars
SpecRegistry == InitRegistry /\ [][NextRegistry]_vars
SpecRace == InitRegistry /\ [][NextRace]_vars

\* ------------------------------------------------------------------ claims
Last(q) == q[Len(q)]

IsKnown(x) == x \in {"True", "False"}

\* The known plugged values of a sample sequence, in order.
Known(q) == SelectSeq(q, IsKnown)

\* The number of true/false changes between consecutive elements.
Changes(k) == Cardinality({i \in 1..(Len(k) - 1) : k[i] # k[i + 1]})

\* A step in which the monitor thread reads one sample.
SampleStep == Len(fed') = Len(fed) + 1

C2_UndeterminedIsNotUnplugged ==
    [][(SampleStep /\ probe'.undetermined)
         => (prev_plugged' = prev_plugged /\ notes' = notes)]_vars

\* C3: a sample without a snapshot never changes self.prev_plugged or the
\* notification count, also at the read done on entering the monitor loop,
\* and self.prev_plugged, once known, does not become unknown again.
C3_UnavailableChangesNothing ==
    [][/\ (SampleStep /\ Last(fed') = "U")
            => (prev_plugged' = prev_plugged /\ Len(notes') = Len(notes))
       /\ prev_plugged # "None" => prev_plugged' # "None"]_vars

\* C4: the first known sample read while self.prev_plugged is unknown only
\* sets the baseline: prev_plugged becomes its value and nothing is notified.
C4_FirstKnownIsBaseline ==
    [][(SampleStep /\ prev_plugged = "None" /\ IsKnown(Last(fed')))
         => (prev_plugged' = Last(fed') /\ notes' = notes)]_vars

\* Two samples without a snapshot, then a first known one: a baseline and
\* no notification.
C4_Witness ==
    /\ fed = <<"U", "U", "False">>
    /\ prev_plugged = "False"
    /\ notes = <<>>

Reloaded == Load(safe_read_json(data_file))

\* The thread is inside safe_write_json, before its rename.
InWrite(t) == pc[t] \in {"open", "dump", "replace"}

\* safe_write_json has returned to the thread, which has not moved on.
AfterWrite(t) == pc[t] \in {"reply", "apply_mode", "apply_admins", "rc_done"}

\* C6: with one persist at a time, data.json holds a whole JSON text in
\* every state a crash can freeze: the content it had when the write began
\* until the rename, and the content being written from the rename on.
C6_CanonicalOldOrNew ==
    /\ data_file.state = "complete"
    /\ \A t \in Threads :
         /\ InWrite(t) => data_file = loc[t].old
         /\ AfterWrite(t) =>
              data_file = IF last_write_ok THEN json_dump(loc[t].cfg) ELSE loc[t].old

\* A crash between the write of the temp file and its rename: the temp
\* file holds the new state, data.json still the old one.
C6_Witness ==
    /\ crashed
    /\ pc["h1"] = "replace"
    /\ tmp_file = json_dump(loc["h1"].cfg)
    /\ data_file = loc["h1"].old
    /\ data_file # tmp_file

\* The step in which a thread reports the success of a mutating operation:
\* a handler's "registered" / "unregistered" reply, or the reconfiguration's
\* "Reconfiguration complete".
ReportsSuccess(t) ==
    /\ pc[t] \in {"reply", "rc_done"}
    /\ pc'[t] = "idle"

\* C7: when a mutating operation reports success, registered_ids, admin_ids
\* and mode in data.json equal the values in memory.
C7_SuccessMeansPersisted ==
    [][\A t \in Threads :
         ReportsSuccess(t) =>
           /\ data_file'.state = "complete"
           /\ SetOfList(data_file'.cfg.registered_ids) = registered_ids'
           /\ SetOfList(data_file'.cfg.admin_ids) = admin_ids'
           /\ data_file'.cfg.mode = mode']_vars

\* register(x) and unregister(x) applied one after the other to a set.
AddOp(S, x) == IF mode = "admin" /\ x \notin admin_ids THEN S ELSE S \cup {x}
RemoveOp(S, x) == S \ {x}
SerialOutcomes(x) == {RemoveOp(AddOp(reg0, x), x), AddOp(RemoveOp(reg0, x), x)}

\* C8: once a register and an unregister of the same id, run in two handler
\* threads, have both returned from _persist_registered, the subscriber set
\* in memory and registered_ids in data.json are the outcome of one of the
\* two serial orders, and the id is listed at most once.  Stated for the
\* runs that leave a whole JSON text in data.json.
C8_AddRemoveSerializable ==
    \A x \in Ids :
      (/\ pc["h1"] = "reply" /\ loc["h1"].cid = x
       /\ pc["h2"] = "reply" /\ loc["h2"].cid = x
       /\ data_file.state = "complete")
        => /\ registered_ids \in SerialOutcomes(x)
           /\ SetOfList(data_file.cfg.registered_ids) = registered_ids
           /\ NoDup(data_file.cfg.registered_ids)

\* C9: when every operation has finished and the last write succeeded, a
\* restart builds from data.json the subscriber set, the admin set, the
\* mode and the poll interval that are in memory.
C9_PersistenceRoundTrips ==
    (AllIdle /\ last_write_ok)
      => (data_file.state = "complete" /\ Reloaded = Memory)

\* Id 0 has just registered in admin-only mode and has been persisted.
C9_Witness ==
    /\ AllIdle
    /\ last_write_ok
    /\ out = Reply(0, "registered")
    /\ 0 \in registered_ids
    /\ 0 \in admin_ids
    /\ registered_ids # reg0
    /\ data_file.cfg.registered_ids = ListOf(registered_ids)

\* C10: a register of an id that is a subscriber, and an unregister of an
\* id that is not, end in the same step with a reply that is no error and
\* leave the subscriber set, data.json and the temp file as they were;
\* registered_ids in data.json never lists an id twice.
C10_AddRemoveIdempotent ==
    /\ [][\A cid \in Ids :
            /\ (HandleRegister("h1", cid) /\ cid \in registered_ids)
                 => /\ out'.text \in {"already", "denied"}
                    /\ UNCHANGED <<registered_ids, fileVars, pc, loc>>
            /\ (HandleUnregister("h1", cid) /\ cid \notin registered_ids)
                 => /\ out' = Reply(cid, "not_registered")
                    /\ UNCHANGED <<registered_ids, fileVars, pc, loc>>]_vars
    /\ [](data_file.state = "complete" => NoDup(data_file.cfg.registered_ids))

\* A subscriber has registered again and has been told so.
C10_Witness ==
    /\ out.text = "already"
    /\ out.cid \in registered_ids
    /\ AllIdle
    /\ Reloaded = Memory

\* The chats a fanout has attempted.
Attempted(f) == {f[i].cid : i \in DOMAIN f}

\* A step that is one call of _notify_all.
NotifyStep == Len(notes') = Len(notes) + 1

\* C11: in one _notify_all every recipient of the list gets its send_message
\* call whichever calls raise: the calls cover the recipient list, and a
\* call fails exactly when its chat is unreachable.
C11_FailureDoesNotAbortFanout ==
    [][NotifyStep =>
         /\ Attempted(fanout') = Recipients
         /\ \A i \in DOMAIN fanout' :
              fanout'[i].ok = (fanout'[i].cid \notin unreachable)]_vars

\* The first send_message of a fanout raised and the next recipient still
\* got its call.
C11_Witness ==
    /\ Len(fanout) >= 2
    /\ ~fanout[1].ok
    /\ fanout[2].ok
    /\ notes # <<>>

\* The iteration reads a known value that differs from a known prev_plugged.
TransitionTick ==
    /\ SampleStep
    /\ mpc = "loop"
    /\ IsKnown(prev_plugged)
    /\ IsKnown(Last(fed'))
    /\ Last(fed') # prev_plugged

\* C12: the iteration that detects a transition makes one send_message call
\* per id of the recipient set, none to another id and none twice, and
\* raises no error also when the set is empty; every other iteration, also
\* the one after a failed delivery or after a read that raised, makes none.
C12_OneAttemptPerRecipientPerEvent ==
    [][/\ TransitionTick =>
            /\ Attempted(fanout') = Recipients
            /\ Len(fanout') = Cardinality(Recipients)
            /\ mpc' = "loop"
       /\ (SampleStep /\ ~TransitionTick) => fanout' = <<>>]_vars

\* One notification whose fanout had a failed delivery among one attempt
\* per subscriber.
C12_Witness ==
    /\ Len(notes) = 1
    /\ Len(fanout) = Cardinality(Ids)
    /\ \E i \in DOMAIN fanout : ~fanout[i].ok
    /\ \E i \in DOMAIN fanout : fanout[i].ok

\* The replies of a status command that passed the access check.
StatusTexts == {"not_available", "power_on", "power_off", "unknown", "error"}

\* C13: _is_allowed is true in admin mode iff the id is in admin_ids and
\* true for every id in multi mode, with the three examples of the
\* specification; a status command is refused exactly when it is false.
C13_IsAllowed ==
    /\ \A A \in SUBSET (Ids \cup {7}), c \in Ids \cup {7, 8} :
         /\ is_allowed_of("admin", A, c) = (c \in A)
         /\ is_allowed_of("multi", A, c) = TRUE
    /\ is_allowed_of("admin", {7}, 7) = TRUE
    /\ is_allowed_of("admin", {7}, 8) = FALSE
    /\ is_allowed_of("multi", {7}, 8) = TRUE
    /\ out.text = "not_allowed" => (mode = "admin" /\ out.cid \notin admin_ids)
    /\ out.text \in StatusTexts => (mode = "multi" \/ out.cid \in admin_ids)

\* In admin mode with a non-empty admin set, a chat outside it has been
\* refused the status.
C13_Witness ==
    /\ mode = "admin"
    /\ admin_ids # {}
    /\ out.text = "not_allowed"
    /\ out.cid \notin admin_ids

\* C14: every _notify_all takes the subscriber set in multi mode and the
\* admin set in admin mode for its recipients, subscribers or not, and the
\* register branch refuses a chat exactly in admin mode for a non-admin.
C14_RecipientsByMode ==
    /\ [][NotifyStep =>
            /\ Last(notes').to = (IF mode = "multi" THEN registered_ids ELSE admin_ids)
            /\ Attempted(fanout') = (IF mode = "multi" THEN registered_ids ELSE admin_ids)]_vars
    /\ [](\A cid \in Ids :
            (RegisterBranch(cid) = "denied") <=> (mode = "admin" /\ cid \notin admin_ids))

\* In admin mode a notification has gone to the admins, none of whom is a
\* subscriber, and not to the subscribers.
C14_Witness ==
    /\ mode = "admin"
    /\ notes # <<>>
    /\ admin_ids # {}
    /\ registered_ids # {}
    /\ admin_ids \cap registered_ids = {}
    /\ Attempted(fanout) = admin_ids

\* C15: a register from a chat outside admin_ids in admin mode is refused
\* and leaves the subscriber set, data.json and the temp file as they
\* were; any other register leaves the chat a subscriber; an unregister
\* leaves the chat no subscriber in either mode, admin or not.
C15_RegisterGatedUnregisterNot ==
    [][\A cid \in Ids :
         /\ (HandleRegister("h1", cid) /\ mode = "admin" /\ cid \notin admin_ids)
              => /\ out' = Reply(cid, "denied")
                 /\ UNCHANGED <<registered_ids, fileVars, pc, loc>>
         /\ (HandleRegister("h1", cid) /\ (mode = "multi" \/ cid \in admin_ids))
              => cid \in registered_ids'
         /\ HandleUnregister("h1", cid)
              => /\ cid \notin registered_ids'
                 /\ cid \in registered_ids => pc'["h1"] = "build"]_vars

\* In admin mode a chat outside admin_ids has been refused and is no
\* subscriber, while data.json is as the last persist left it.
C15_Witness ==
    /\ mode = "admin"
    /\ out.text = "denied"
    /\ out.cid \notin admin_ids
    /\ out.cid \notin registered_ids
    /\ AllIdle
    /\ Reloaded = Memory

\* C16: in either mode a reconfigure from a chat outside admin_ids is
\* answered with the refusal and changes neither mode, admin_ids,
\* poll_interval nor any thread; the reconfiguration thread only ever runs
\* for a chat that was in admin_ids.
C16_ReconfigureAdminOnly ==
    /\ [][\A cid \in Ids :
            (HandleReconfigure("h1", cid) /\ cid \notin admin_ids)
              => /\ out' = Reply(cid, "not_admin")
                 /\ UNCHANGED <<memVars, fileVars, pc, loc>>]_vars
    /\ [](pc["rc"] = "setup" => loc["rc"].cid \in admin_ids)

\* In multi mode a chat has been refused the reconfiguration.
C16_Witness ==
    /\ mode = "multi"
    /\ out.text = "not_admin"
    /\ pc["rc"] = "idle"

\* C17: the monitor thread ends only after stop has been signalled: no
\* error of a probe read, the first one included, ends it.
C17_LoopSurvivesErrors == mpc = "dead" => stop_event

\* C18: no call of get_battery_snapshot raises: a failing adapter counts as
\* unavailable, and the handler that called it gets an answer.
C18_ProbeNeverRaises ==
    /\ last_read.snap # Raised
    /\ out.text # "error"

\* The adapters of a platform in priority order.
Chain(p) ==
    IF p = "linux" THEN <<"psutil", "sysfs">>
    ELSE IF p = "android" THEN <<"psutil", "termux", "sysfs">>
    ELSE <<"psutil">>

AdapterResult(adapter, raw) ==
    IF adapter = "psutil" THEN read_battery_psutil(raw)
    ELSE IF adapter = "termux" THEN read_battery_termux(raw)
    ELSE read_battery_linux_sysfs(raw)

\* The position in the chain of the first adapter that is not unavailable,
\* 0 if there is none.
FirstAnswer(chain, raw) ==
    IF \A i \in DOMAIN chain : AdapterResult(chain[i], raw) = NoSnap THEN 0
    ELSE CHOOSE i \in DOMAIN chain :
           /\ AdapterResult(chain[i], raw) # NoSnap
           /\ \A j \in 1..(i - 1) : AdapterResult(chain[j], raw) = NoSnap

\* C19: a call of get_battery_snapshot invokes the adapters of the platform
\* in priority order up to the first that is not unavailable, gives that
\* adapter's result, and invokes none after it and none outside the
\* platform's chain; with every adapter unavailable it gives None.
C19_FirstAvailableAdapter ==
    last_read.platform # "none" =>
      LET chain == Chain(last_read.platform)
          k == FirstAnswer(chain, last_read.raw)
      IN /\ last_read.invoked = (IF k = 0 THEN chain ELSE SubSeq(chain, 1, k))
         /\ last_read.snap = (IF k = 0 THEN NoSnap ELSE AdapterResult(chain[k], last_read.raw))

\* On android the generic reader and the external command were unavailable
\* and the filesystem reader answered.
C19_Witness ==
    /\ last_read.platform = "android"
    /\ last_read.invoked = <<"psutil", "termux", "sysfs">>
    /\ last_read.snap.source = "sysfs"
    /\ out.text = "power_on"

\* C20: data.json holds a whole JSON text in every state, also while the
\* persists of two handler threads overlap.
C20_OverlapKeepsCanonicalWhole ==
    data_file.state = "complete" /\ NoDup(data_file.cfg.registered_ids)

\* The sets the registry holds around the add or remove that handler
\* thread t is in: the one before it and the one after it.
HeldSets(t) ==
    {reg0, IF loc[t].cmd = "register" THEN reg0 \cup {loc[t].cid} ELSE reg0 \ {loc[t].cid}}

\* The handler thread t is inside a register or unregister that changes the set.
InAddRemove(t) == pc[t] # "idle" /\ loc[t].cmd \in {"register", "unregister"}

\* C21: the recipient list that a fanout in multi-user mode reads while a
\* register or unregister is under way is the subscriber set from before
\* that add or remove, or the one after it, never anything else.
C21_FanoutReadsWholeSet ==
    [][NotifyStep /\ tick.mode = "multi" /\ InAddRemove("h1")
         => Last(notes').to \in HeldSets("h1")]_vars

\* A fanout has read the set after a register added its chat and before
\* the file was written.
C21_Witness ==
    /\ InAddRemove("h1")
    /\ InWrite("h1")
    /\ loc["h1"].cmd = "register"
    /\ mode = "multi"
    /\ notes # <<>>
    /\ loc["h1"].cid \notin reg0
    /\ Last(notes).to = reg0 \cup {loc["h1"].cid}
    /\ Attempted(fanout) = Last(notes).to
    /\ loc["h1"].cid \notin SetOfList(safe_read_json(data_file).registered_ids)

\* _persist_registered has returned to the thread, which has not moved on.
AfterPersist(t) == pc[t] \in {"reply", "rc_done"}

\* The thread's change is in force in memory.
ChangeInMemory(t) ==
    /\ loc[t].cmd = "register" => loc[t].cid \in registered_ids
    /\ loc[t].cmd = "unregister" => loc[t].cid \notin registered_ids
    /\ loc[t].cmd = "reconfigure" =>
          /\ mode = loc[t].cfg.mode
          /\ admin_ids = SetOfList(loc[t].cfg.admin_ids)
          /\ poll_interval = loc[t].cfg.poll_interval

\* C22: when a persist has failed, memory keeps the change and data.json
\* keeps the whole content it had before; when a persist has succeeded,
\* data.json holds the whole registry in memory, changes whose persist
\* failed earlier included.
C22_FailedPersistCaughtUp ==
    \A t \in Threads :
      AfterPersist(t) =>
        /\ ChangeInMemory(t)
        /\ data_file.state = "complete"
        /\ IF last_write_ok
           THEN /\ SetOfList(data_file.cfg.registered_ids) = registered_ids
                /\ SetOfList(data_file.cfg.admin_ids) = admin_ids
                /\ data_file.cfg.mode = mode
                /\ data_file.cfg.poll_interval = poll_interval
           ELSE data_file = loc[t].old

\* The register of chat 1 has been persisted, and the file went from no
\* subscriber to chats 0 and 1: chat 0 was in memory only, a write having
\* failed before.
C22_Witness ==
    /\ failures > 0
    /\ pc["h1"] = "reply"
    /\ last_write_ok
    /\ loc["h1"].cmd = "register"
    /\ loc["h1"].cid = 1
    /\ loc["h1"].old.state = "complete"
    /\ loc["h1"].old.cfg.registered_ids = <<>>
    /\ data_file.cfg.registered_ids = <<0, 1>>
    /\ registered_ids = {0, 1}

\* The stop event is tested only by the while condition: once it is set,
\* the iteration under way goes on, and no read of a further iteration
\* is made.
StopTestedBetweenTicks ==
    [][stop_event /\ mpc \in {"loop", "fanout", "sleep"} =>
         /\ ~SampleStep
         /\ mpc = "fanout" => mpc' \in {"fanout", "sleep"}]_vars

\* C23: a fanout that had begun when stop was signalled is carried through:
\* the process never ends with recipients of that fanout not yet attempted.
C23_FanoutOutlivesStop == crashed => tick.pending = <<>>

\* The reconfiguration thread is running before or after the step.
DuringReconfig == pc["rc"] # "idle" \/ pc'["rc"] # "idle"

\* The subscriber list a restart would read from data.json.
PersistedIds(file) == SetOfList(safe_read_json(file).registered_ids)

\* C24: no step from the start of a reconfiguration to its end changes the
\* subscriber set, neither the one in memory nor the registered_ids that
\* data.json holds.
C24_ReconfigKeepsSubscribers ==
    [][DuringReconfig =>
         /\ registered_ids' = registered_ids
         /\ PersistedIds(data_file') = PersistedIds(data_file)]_vars

\* The recipients _notify_all would take under a whole configuration.
ConfigRecipients(cfg) ==
    IF cfg.mode = "multi" THEN registered_ids ELSE SetOfList(cfg.admin_ids)

\* The reconfiguration thread has the new configuration in hand; its
\* locals hold the configuration it replaces and the new one.
Reconfiguring == pc["rc"] \notin {"idle", "setup"}

\* C25: a fanout that starts while a reconfiguration is under way takes
\* the recipients of the old configuration or those of the new one, mode
\* and admin_ids together.
C25_FanoutSeesWholeConfig ==
    [][NotifyStep /\ Reconfiguring =>
         Last(notes').to \in {ConfigRecipients(loc["rc"].old.cfg),
                              ConfigRecipients(loc["rc"].cfg)}]_vars

====
